---------------------------- MODULE Spec2Model ----------------------------
(***************************************************************************)
(* Verification model of the virtual chemistry lab interaction layer:      *)
(*   - Reaction Lookup        (src/src/data/reactionLogic.ts)              *)
(*   - Drag-Drop Registry     (src/unnamed/part_001, DragDropManager)      *)
(*   - Vessel volume state    (src/src/components/lab/*.tsx)               *)
(*                                                                         *)
(* Conventions                                                             *)
(*   - A nullable reference (T | null) is the set of the values it holds:  *)
(*     {} for null, {v} for v.                                             *)
(*   - Strings that the code inspects character by character are tuples of *)
(*     one-character strings.                                              *)
(*   - Effect intensities are in tenths (0.8 is 8), volumes in half        *)
(*     millilitres (1.5 mL is 3), coordinates in half scene units          *)
(*     (0.5 is 1).                                                         *)
(***************************************************************************)
EXTENDS Integers, Sequences, FiniteSets, TLC

VARIABLES
    \* ---- Reaction Lookup ----
    experiments,      \* the Experiment[] handed to generateReactionLogic
    reactionPc,       \* "init" before generateReactionLogic ran, then "generated"
    reactionLogic,    \* the Record<string, ReactionResult> it returned
    trigger,          \* the last checkReactionTrigger call: arguments and result
    \* ---- Drag-Drop Registry ----
    enabled,          \* DragDropProvider prop
    handle,           \* the DragObject records (heap), by reference
    position,         \* Object3D.position of every scene object
    registeredObjects,\* Map<string, DragObject>: id -> reference
    draggedObject,    \* DragObject | null
    hoveredObject,    \* DragObject | null
    isDragging,       \* boolean
    dragEvent,        \* the last registry operation that ran, with its inputs
    \* ---- Vessel ----
    vessel,           \* props and committed React state of one vessel instance
    rendered,         \* the state values captured by the vessel's last render
    vesselEvent,      \* the last vessel operation that ran
    gesture,          \* the cap's pointer gesture in progress: the cap state before it
    pour,             \* the volume at the start of the last pour, its pour-end events
    \* ---- InteractiveObject wrapper ----
    wrapper,          \* props, ref, memo and effect state of one wrapper
    \* ---- Liquid system ----
    liquidProps,      \* LiquidSystemProvider props: enabled, maxParticles
    streams,          \* LiquidStream[]
    splashParticles,  \* LiquidParticle[]
    streamIdCounter,  \* useRef(0)
    timers,           \* pending setTimeout callbacks of stopPour, by stream id
    liquidEvent,      \* the last liquid system operation that ran
    \* ---- Experiment page ----
    session,          \* the signed-in user of the remote store, or none
    userProgress,     \* the user_progress row of that user and the experiment
    page,             \* route parameter and React state of the page
    tasks,            \* the calls of the page's async functions, in start order
    toasts,           \* the notifications shown, each with the call that showed it
    \* ---- ReactionEffect / PouringEffect ----
    effect,           \* one effect component: props, pending cleanup, counters
    effectTimers,     \* the pending setTimeout callbacks
    onCompleteCalls,  \* the activations for which onComplete was invoked
    tornDown          \* the activations torn down before onComplete was invoked

reactionVars == <<experiments, reactionPc, reactionLogic, trigger>>
dragVars     == <<enabled, handle, position, registeredObjects, draggedObject,
                  hoveredObject, isDragging, dragEvent>>
vesselVars   == <<vessel, rendered, vesselEvent, gesture, pour>>
wrapperVars  == <<wrapper>>
liquidVars   == <<liquidProps, streams, splashParticles, streamIdCounter,
                  timers, liquidEvent>>
pageVars     == <<session, userProgress, page, tasks, toasts>>
effectVars   == <<effect, effectTimers, onCompleteCalls, tornDown>>
vars         == <<reactionVars, dragVars, vesselVars, wrapperVars, liquidVars,
                  pageVars, effectVars>>

\* what the operations of one component leave alone
reactionRest == <<dragVars, vesselVars, wrapperVars, liquidVars, pageVars,
                  effectVars>>
dragRest     == <<reactionVars, vesselVars, wrapperVars, liquidVars, pageVars,
                  effectVars>>
vesselRest   == <<reactionVars, dragVars, wrapperVars, liquidVars, pageVars,
                  effectVars>>
wrapperRest  == <<reactionVars, vesselVars, liquidVars, pageVars, effectVars>>
liquidRest   == <<reactionVars, dragVars, vesselVars, wrapperVars, pageVars,
                  effectVars>>
pageRest     == <<reactionVars, dragVars, vesselVars, wrapperVars, liquidVars,
                  effectVars>>
effectRest   == <<reactionVars, dragVars, vesselVars, wrapperVars, liquidVars,
                  pageVars>>

Min(a, b) == IF a < b THEN a ELSE b
Max(a, b) == IF a > b THEN a ELSE b

(***************************************************************************)
(* Bounds of the model                                                     *)
(***************************************************************************)
MaxExperiments == 2     \* longest experiment list
MaxChemicals   == 2     \* longest chemicalIds array

SeqsUpTo(S, n) == UNION { [1..k -> S] : k \in 0..n }

(***************************************************************************)
(* Reaction Lookup                                                         *)
(***************************************************************************)
UpperChars == <<"A","B","C","D","E","F","G","H","I","J","K","L","M",
                "N","O","P","Q","R","S","T","U","V","W","X","Y","Z">>
LowerChars == <<"a","b","c","d","e","f","g","h","i","j","k","l","m",
                "n","o","p","q","r","s","t","u","v","w","x","y","z">>

\* String.prototype.toLowerCase on one character / on a string
ToLowerChar(c) ==
    IF \E i \in 1..Len(UpperChars) : UpperChars[i] = c
    THEN LowerChars[CHOOSE i \in 1..Len(UpperChars) : UpperChars[i] = c]
    ELSE c

\* toLowerCase left out: the switch compares the category as spelled
ToLowerCase_Identity(s) == s

ToLowerCase(s) == [i \in 1..Len(s) |-> ToLowerChar(s[i])]

AcidBase      == <<"a","c","i","d","-","b","a","s","e">>
Precipitation == <<"p","r","e","c","i","p","i","t","a","t","i","o","n">>
Combustion    == <<"c","o","m","b","u","s","t","i","o","n">>

\* Category spellings given to the lookup
Categories ==
    { AcidBase,
      <<"A","c","i","d","-","B","a","s","e">>,
      Precipitation,
      <<"P","r","e","c","i","p","i","t","a","t","i","o","n">>,
      Combustion,
      <<"C","O","M","B","U","S","T","I","O","N">>,
      <<"r","e","d","o","x">>,
      <<"a","c","i","d"," ","b","a","s","e">> }

ExperimentIds == {"exp-1", "exp-2"}
UnknownId     == "exp-9"
ChemicalIds   == {"HCl", "NaOH"}

Experiments == [id : ExperimentIds, category : Categories]

\* The object literal assigned in each case of the switch
CategoryResult(lower) ==
    IF lower = AcidBase THEN
        [outcomeText |-> "Neutralization reaction occurred",
         effects |-> << [type |-> "color-change", intensity |-> 8] >>]
    ELSE IF lower = Precipitation THEN
        [outcomeText |-> "Precipitation reaction occurred",
         effects |-> << [type |-> "precipitation", intensity |-> 9] >>]
    ELSE IF lower = Combustion THEN
        [outcomeText |-> "Combustion reaction occurred",
         effects |-> << [type |-> "heat-release", intensity |-> 10] >>]
    ELSE
        [outcomeText |-> "Reaction occurred",
         effects |-> << [type |-> "color-change", intensity |-> 7] >>]

\* experiments.forEach(exp => reactions[exp.id] = ...): left to right, a later
\* experiment with the same id overwrites the earlier entry
RECURSIVE ForEachExperiment(_, _)
ForEachExperiment(exps, reactions) ==
    IF exps = <<>> THEN reactions
    ELSE LET exp == Head(exps)
             key == exp.id
             res == CategoryResult(ToLowerCase(exp.category))
         IN  ForEachExperiment(Tail(exps),
                 [k \in DOMAIN reactions \cup {key} |->
                     IF k = key THEN res ELSE reactions[k]])

generateReactionLogic(exps) == ForEachExperiment(exps, <<>>)

Range(seq) == {seq[i] : i \in 1..Len(seq)}

\* the length test is strict
checkReactionTrigger_Strict(chemicalIds, logic, experimentId) ==
    IF Len(chemicalIds) > 2 /\ experimentId \in DOMAIN logic
    THEN {logic[experimentId]}
    ELSE {}

\* the test counts distinct ids instead of array entries
checkReactionTrigger_Distinct(chemicalIds, logic, experimentId) ==
    IF Cardinality(Range(chemicalIds)) >= 2 /\ experimentId \in DOMAIN logic
    THEN {logic[experimentId]}
    ELSE {}

\* chemicalIds.length >= 2 && reactionLogic[experimentId] ? stored : null
checkReactionTrigger(chemicalIds, logic, experimentId) ==
    IF Len(chemicalIds) >= 2 /\ experimentId \in DOMAIN logic
    THEN {logic[experimentId]}
    ELSE {}

NoTrigger == [called |-> FALSE, chemicalIds |-> <<>>, experimentId |-> UnknownId,
              result |-> {}]

ReactionInit ==
    /\ experiments \in SeqsUpTo(Experiments, MaxExperiments)
    /\ reactionPc = "init"
    /\ reactionLogic = <<>>
    /\ trigger = NoTrigger

\* the caller builds the mapping once from the catalog
GenerateReactionLogic ==
    /\ reactionPc = "init"
    /\ reactionLogic' = generateReactionLogic(experiments)
    /\ reactionPc' = "generated"
    /\ UNCHANGED <<experiments, trigger>>
    /\ UNCHANGED reactionRest

\* the call removes the entry it returns from the mapping
CheckReactionTrigger_Consume ==
    /\ reactionPc = "generated"
    /\ \E chemicalIds \in SeqsUpTo(ChemicalIds, MaxChemicals),
          experimentId \in ExperimentIds \cup {UnknownId} :
          LET res == checkReactionTrigger(chemicalIds, reactionLogic, experimentId)
          IN  /\ trigger' = [called |-> TRUE, chemicalIds |-> chemicalIds,
                             experimentId |-> experimentId, result |-> res]
              /\ reactionLogic' =
                    IF res # {}
                    THEN [k \in DOMAIN reactionLogic \ {experimentId} |-> reactionLogic[k]]
                    ELSE reactionLogic
    /\ UNCHANGED <<experiments, reactionPc>>
    /\ UNCHANGED reactionRest

\* a call of checkReactionTrigger on the mapping; the mapping is only read
CheckReactionTrigger ==
    /\ reactionPc = "generated"
    /\ \E chemicalIds \in SeqsUpTo(ChemicalIds, MaxChemicals),
          experimentId \in ExperimentIds \cup {UnknownId} :
          trigger' = [called |-> TRUE, chemicalIds |-> chemicalIds,
                      experimentId |-> experimentId,
                      result |-> checkReactionTrigger(chemicalIds, reactionLogic,
                                                      experimentId)]
    /\ UNCHANGED <<experiments, reactionPc, reactionLogic>>
    /\ UNCHANGED reactionRest

ReactionNext == GenerateReactionLogic \/ CheckReactionTrigger

(***************************************************************************)
(* Vessels (Beaker, Flask, TestTube, Bottle)                               *)
(*                                                                         *)
(* vessel holds the props and the React state as last set; rendered holds  *)
(* the values the handlers of the last render closed over.  Handlers of    *)
(* pointer events are followed by a synchronous re-render; a state update  *)
(* made from the frame callback is rendered by a later task (VesselRender).*)
(***************************************************************************)
MaxVolume   == 6        \* largest maxVolume prop, in half millilitres
MaxPourEnds == 2        \* frame callbacks that end one pour before the render

VesselKinds == {"Beaker", "Flask", "TestTube", "Bottle"}

\* const pourRate = 2 / 1.5 / 0.5 / 1 (mL per frame), in half millilitres
PourRate(kind) ==
    CASE kind = "Beaker"   -> 4
      [] kind = "Flask"    -> 3
      [] kind = "TestTube" -> 1
      [] kind = "Bottle"   -> 2

StateOf(v) == [currentVolume |-> v.currentVolume, isPouring |-> v.isPouring,
               isCapOpen |-> v.isCapOpen]

\* useState(false) x3 (x4 for the Bottle), useState(volume)
VesselInit ==
    /\ \E kind \in VesselKinds, maxVolume \in 1..MaxVolume, isDraggable \in BOOLEAN :
       \E volume \in 0..maxVolume :
          /\ vessel = [kind |-> kind, maxVolume |-> maxVolume, volume |-> volume,
                       isDraggable |-> isDraggable,
                       currentVolume |-> volume, isPouring |-> FALSE,
                       isCapOpen |-> FALSE, hovered |-> FALSE,
                       isDragging |-> FALSE]
          /\ pour = [startVolume |-> volume, ends |-> 0]
    /\ rendered = StateOf(vessel)
    /\ vesselEvent = [op |-> "mount", poured |-> 0]
    /\ gesture = {}

\* setIsPouring(false); setCurrentVolume(currentVolume - pouredVolume), the
\* floor at 0 left out
handlePourEnd_NoFloor(v, r, pouredVolume) ==
    [v EXCEPT !.isPouring = FALSE,
              !.currentVolume = r.currentVolume - pouredVolume]

\* the volume is taken from the latest state and not from the closure
handlePourEnd_FromLatestState(v, r, pouredVolume) ==
    [v EXCEPT !.isPouring = FALSE,
              !.currentVolume = Max(0, v.currentVolume - pouredVolume)]

\* setIsPouring(false); setCurrentVolume(Math.max(0, currentVolume - pouredVolume))
\* where currentVolume is the value the callback closed over
handlePourEnd(v, r, pouredVolume) ==
    [v EXCEPT !.isPouring = FALSE,
              !.currentVolume = Max(0, r.currentVolume - pouredVolume)]

\* if (currentVolume > 0 && !isPouring [&& isCapOpen]) setIsPouring(true)
handlePourStart(v, r) ==
    IF /\ r.currentVolume > 0
       /\ ~r.isPouring
       /\ (v.kind = "Bottle" => r.isCapOpen)
    THEN [v EXCEPT !.isPouring = TRUE]
    ELSE v

\* setIsCapOpen(!isCapOpen)
handleCapClick(v, r) == [v EXCEPT !.isCapOpen = ~r.isCapOpen]

\* onDoubleClick={() => handlePourStart()}, then the re-render of the event
VesselDoubleClick ==
    /\ vessel' = handlePourStart(vessel, rendered)
    /\ rendered' = StateOf(vessel')
    /\ vesselEvent' = [op |-> "doubleClick", poured |-> 0]
    /\ pour' = IF vessel'.isPouring /\ ~vessel.isPouring
               THEN [startVolume |-> vessel.currentVolume, ends |-> 0]
               ELSE pour
    /\ UNCHANGED gesture
    /\ UNCHANGED vesselRest

\* useFrame: if (isPouring && currentVolume > 0 [&& isCapOpen]) and
\* Math.random() < 0.3 then handlePourEnd(pourRate); the re-render comes later
VesselFrame ==
    /\ rendered.isPouring
    /\ rendered.currentVolume > 0
    /\ (vessel.kind = "Bottle" => rendered.isCapOpen)
    /\ pour.ends < MaxPourEnds
    /\ vessel' = handlePourEnd(vessel, rendered, PourRate(vessel.kind))
    /\ vesselEvent' = [op |-> "pourEnd", poured |-> PourRate(vessel.kind)]
    /\ pour' = [pour EXCEPT !.ends = @ + 1]
    /\ UNCHANGED <<rendered, gesture>>
    /\ UNCHANGED vesselRest

\* React renders the pending state: the next closures see the committed values
VesselRender ==
    /\ rendered # StateOf(vessel)
    /\ rendered' = StateOf(vessel)
    /\ vesselEvent' = [op |-> "render", poured |-> 0]
    /\ UNCHANGED <<vessel, gesture, pour>>
    /\ UNCHANGED vesselRest

\* the cap group's onPointerDown={handleCapClick}: the start of a pointer
\* gesture on the cap
VesselCapPointerDown ==
    /\ vessel.kind = "Bottle"
    /\ vessel' = handleCapClick(vessel, rendered)
    /\ rendered' = StateOf(vessel')
    /\ vesselEvent' = [op |-> "capPointerDown", poured |-> 0]
    /\ gesture' = {vessel.isCapOpen}
    /\ UNCHANGED pour
    /\ UNCHANGED vesselRest

\* the cap group's onClick={handleCapClick}: the host delivers click after
\* the pointer-down (and pointer-up) of the same gesture
VesselCapClick ==
    /\ vessel.kind = "Bottle"
    /\ gesture # {}
    /\ vessel' = handleCapClick(vessel, rendered)
    /\ rendered' = StateOf(vessel')
    /\ vesselEvent' = [op |-> "capClick", poured |-> 0]
    /\ gesture' = {}
    /\ UNCHANGED pour
    /\ UNCHANGED vesselRest

\* the group's onClick={handleClick}: a toast, no state is set
VesselClick ==
    /\ vesselEvent' = [op |-> "click", poured |-> 0]
    /\ UNCHANGED <<vessel, rendered, gesture, pour>>
    /\ UNCHANGED vesselRest

\* onPointerOver={() => setHovered(true)}, onPointerOut={() => setHovered(false)}
VesselPointerOverOut ==
    /\ \E over \in BOOLEAN :
          /\ vessel' = [vessel EXCEPT !.hovered = over]
          /\ vesselEvent' = [op |-> IF over THEN "pointerOver" ELSE "pointerOut",
                             poured |-> 0]
    /\ rendered' = StateOf(vessel')
    /\ UNCHANGED <<gesture, pour>>
    /\ UNCHANGED vesselRest

\* onPointerDown: if (isDraggable) setIsDragging(true)
VesselPointerDown ==
    /\ vessel' = IF vessel.isDraggable THEN [vessel EXCEPT !.isDragging = TRUE]
                 ELSE vessel
    /\ rendered' = StateOf(vessel')
    /\ vesselEvent' = [op |-> "pointerDown", poured |-> 0]
    /\ UNCHANGED <<gesture, pour>>
    /\ UNCHANGED vesselRest

\* onPointerUp={() => setIsDragging(false)}
VesselPointerUp ==
    /\ vessel' = [vessel EXCEPT !.isDragging = FALSE]
    /\ rendered' = StateOf(vessel')
    /\ vesselEvent' = [op |-> "pointerUp", poured |-> 0]
    /\ UNCHANGED <<gesture, pour>>
    /\ UNCHANGED vesselRest

\* the current volume follows the volume prop
VesselVolumeProp_Resyncs ==
    /\ \E volume \in {0, vessel.maxVolume} :
          /\ volume # vessel.volume
          /\ vessel' = [vessel EXCEPT !.volume = volume, !.currentVolume = volume]
    /\ rendered' = StateOf(vessel')
    /\ vesselEvent' = [op |-> "volumeProp", poured |-> 0]
    /\ UNCHANGED <<gesture, pour>>
    /\ UNCHANGED vesselRest

\* the parent renders the vessel with another volume prop: useState(volume)
\* reads the prop at the mount only
VesselVolumeProp ==
    /\ \E volume \in {0, vessel.maxVolume} :
          /\ volume # vessel.volume
          /\ vessel' = [vessel EXCEPT !.volume = volume]
    /\ rendered' = StateOf(vessel')
    /\ vesselEvent' = [op |-> "volumeProp", poured |-> 0]
    /\ UNCHANGED <<gesture, pour>>
    /\ UNCHANGED vesselRest

VesselNext ==
    \/ VesselDoubleClick
    \/ VesselFrame
    \/ VesselRender
    \/ VesselCapPointerDown
    \/ VesselCapClick
    \/ VesselClick
    \/ VesselPointerOverOut
    \/ VesselPointerDown
    \/ VesselPointerUp
    \/ VesselVolumeProp

(***************************************************************************)
(* Drag-Drop Registry (DragDropProvider)                                   *)
(*                                                                         *)
(* Handles are DragObject references; two of them (h1, h3) carry the same  *)
(* id and the same Object3D, as the wrapper produces when it rebuilds its  *)
(* DragObject after a prop change.  Every Object3D owns meshes at depth 0  *)
(* (the object itself), 1 (a child) and 2 (a deeper descendant).           *)
(***************************************************************************)
Handles == {"h1", "h2", "h3"}
Objects == {"o1", "o2"}

HandleId(h)     == IF h = "h2" THEN "obj-2" ELSE "obj-1"
HandleObject(h) == IF h = "h2" THEN "o2" ELSE "o1"
HandleIds       == {HandleId(h) : h \in Handles}
UnknownHandleId == "obj-9"

Coord     == -1..2
Positions == [x : Coord, y : Coord, z : Coord]
Origin    == [x |-> 0, y |-> 0, z |-> 0]

\* Where the first object stands when the run starts: outside the range of the
\* bounds on every axis (the corners), and inside it
StartPositions ==
    { [x |-> -1, y |-> -1, z |-> -1], [x |-> 2, y |-> 2, z |-> 2],
      [x |-> 2, y |-> -1, z |-> 1],   [x |-> 0, y |-> 1, z |-> 1] }

Unbounded == [minX |-> {}, maxX |-> {}, minY |-> {}, maxY |-> {},
              minZ |-> {}, maxZ |-> {}]

\* constraints: { minY: dragPlaneY - 0.5, ...constraints } with dragPlaneY = 1
\* and no constraints prop (InteractiveObject.tsx:72-75)
WrapperDefault == [Unbounded EXCEPT !.minY = {1}]

\* The constraints a DragObject is created with: undefined, or an object whose
\* bounds are each a number or undefined (a [min,max] pair has min <= max)
ConstraintChoices ==
    { {},
      {Unbounded},
      {WrapperDefault},
      {[Unbounded EXCEPT !.minX = {0}, !.maxZ = {0}]},
      {[minX |-> {-1}, maxX |-> {0}, minY |-> {0}, maxY |-> {1},
        minZ |-> {1}, maxZ |-> {1}]} }

Meshes == [object : Objects, depth : 0..2]

\* What a pointer ray passes through, nearest first: for every object it
\* crosses, the nearest mesh of that object's subtree
Rays == { r \in SeqsUpTo(Meshes, Cardinality(Objects)) :
            \A i, j \in 1..Len(r) : i # j => r[i].object # r[j].object }

\* const [dragPlaneY] = useState(1), in half scene units
DragPlaneY == 2

\* Where the pointer ray meets the horizontal plane at the drag height: no
\* point (a ray parallel to the plane, or pointing away from it), or a point
\* of that plane
PlaneHits == { {}, {[x |-> 1, y |-> DragPlaneY, z |-> 0]} }

\* op: the operation; target: the handle it was given or resolved to;
\* id: the id it was given; hit: the nearest mesh under the pointer;
\* plane: where the pointer ray meets the drag plane; was: the dragged
\* reference it found; threw: it raised an exception
NoDragEvent == [op |-> "mount", target |-> {}, id |-> UnknownHandleId,
                hit |-> {}, plane |-> {}, was |-> {}, threw |-> FALSE]

Nearest(ray) == IF Len(ray) > 0 THEN {ray[1]} ELSE {}

Registered == {registeredObjects[id] : id \in DOMAIN registeredObjects}

DragInit ==
    /\ enabled \in BOOLEAN
    /\ \E p \in StartPositions :
          position = [o \in Objects |-> IF o = "o1" THEN p ELSE Origin]
    /\ \E c \in ConstraintChoices :
          handle = [h \in Handles |->
                      [id |-> HandleId(h), object |-> HandleObject(h),
                       isDraggable |-> (h # "h3"),
                       constraints |-> CASE h = "h1" -> c
                                         [] h = "h2" -> {WrapperDefault}
                                         [] h = "h3" -> {},
                       initialPosition |-> position[HandleObject(h)]]]
    /\ registeredObjects = <<>>
    /\ draggedObject = {}
    /\ hoveredObject = {}
    /\ isDragging = FALSE
    /\ dragEvent = NoDragEvent

\* setRegisteredObjects(prev => new Map(prev.set(object.id, object)))
registerObject(map, h) ==
    [id \in DOMAIN map \cup {handle[h].id} |->
        IF id = handle[h].id THEN h ELSE map[id]]

\* newMap.delete(id) forgotten: the copy is returned as it was
unregisterObject_NoDelete(map, id) == map

\* an id that is not found empties the map
unregisterObject_ClearOnMiss(map, id) ==
    IF id \in DOMAIN map THEN [k \in DOMAIN map \ {id} |-> map[k]] ELSE <<>>

\* setRegisteredObjects(prev => { newMap = new Map(prev); newMap.delete(id) })
unregisterObject(map, id) == [k \in DOMAIN map \ {id} |-> map[k]]

\* raycaster.intersectObjects(registered objects, true): the hits, nearest
\* first, on the subtrees of the registered handles' objects
getIntersection(ray) ==
    SelectSeq(ray, LAMBDA m : \E h \in Registered : handle[h].object = m.object)

\* dragObject.object === clicked || dragObject.object.children.includes(clicked)
\* over the entries of registeredObjects
FindRegistered(intersects) ==
    IF Len(intersects) > 0
    THEN {h \in Registered :
            /\ handle[h].object = intersects[1].object
            /\ intersects[1].depth \in {0, 1}}
    ELSE {}

The(S) == CHOOSE v \in S : TRUE

\* the upper bound is never applied
ClampAxis_NoMax(lo, hi, v) == IF lo # {} THEN Max(The(lo), v) ELSE v

\* if (min !== undefined) v = Math.max(min, v);
\* if (max !== undefined) v = Math.min(max, v);
ClampAxis(lo, hi, v) ==
    LET raised == IF lo # {} THEN Max(The(lo), v) ELSE v
    IN  IF hi # {} THEN Min(The(hi), raised) ELSE raised

\* the six statements of endDrag on pos = draggedObject.object.position
ApplyConstraints(c, pos) ==
    [x |-> ClampAxis(c.minX, c.maxX, pos.x),
     y |-> ClampAxis(c.minY, c.maxY, pos.y),
     z |-> ClampAxis(c.minZ, c.maxZ, pos.z)]

\* the isDraggable test is missing
startDrag_NoGuard(h) ==
    /\ draggedObject' = {h}
    /\ isDragging' = TRUE
    /\ handle' = [handle EXCEPT
                    ![h].initialPosition = position[handle[h].object]]

\* the new handle is added to the dragged ones instead of replacing them
startDrag_Accumulate(h) ==
    IF ~handle[h].isDraggable
    THEN UNCHANGED <<draggedObject, isDragging, handle>>
    ELSE /\ draggedObject' = draggedObject \cup {h}
         /\ isDragging' = TRUE
         /\ handle' = [handle EXCEPT
                         ![h].initialPosition = position[handle[h].object]]

\* if (!object.isDraggable) return; setDraggedObject(object);
\* setIsDragging(true); object.initialPosition = object.object.position.clone()
startDrag(h) ==
    IF ~handle[h].isDraggable
    THEN UNCHANGED <<draggedObject, isDragging, handle>>
    ELSE /\ draggedObject' = {h}
         /\ isDragging' = TRUE
         /\ handle' = [handle EXCEPT
                         ![h].initialPosition = position[handle[h].object]]

\* if (draggedObject && constraints) clamp the position;
\* setDraggedObject(null); setIsDragging(false)
endDrag ==
    /\ position' =
         IF draggedObject # {} /\ handle[The(draggedObject)].constraints # {}
         THEN LET d == The(draggedObject)
                  o == handle[d].object
              IN  [position EXCEPT
                     ![o] = ApplyConstraints(The(handle[d].constraints), position[o])]
         ELSE position
    /\ draggedObject' = {}
    /\ isDragging' = FALSE

\* a wrapper (or any context consumer) calls registerObject(object)
RegisterObject ==
    /\ \E h \in Handles :
          /\ registeredObjects' = registerObject(registeredObjects, h)
          /\ dragEvent' = [NoDragEvent EXCEPT !.op = "register", !.target = {h},
                                             !.id = handle[h].id]
    /\ UNCHANGED <<enabled, handle, position, draggedObject, hoveredObject,
                   isDragging>>
    /\ UNCHANGED dragRest

\* a context consumer calls unregisterObject(id), registered or not
UnregisterObject ==
    /\ \E id \in HandleIds \cup {UnknownHandleId} :
          /\ registeredObjects' = unregisterObject(registeredObjects, id)
          /\ dragEvent' = [NoDragEvent EXCEPT !.op = "unregister", !.id = id]
    /\ UNCHANGED <<enabled, handle, position, draggedObject, hoveredObject,
                   isDragging>>
    /\ UNCHANGED dragRest

\* a context consumer calls startDrag(object)
StartDrag ==
    /\ \E h \in Handles :
          /\ startDrag(h)
          /\ dragEvent' = [NoDragEvent EXCEPT !.op = "startDrag", !.target = {h},
                                             !.id = handle[h].id,
                                             !.was = draggedObject]
    /\ UNCHANGED <<enabled, position, registeredObjects, hoveredObject>>
    /\ UNCHANGED dragRest

\* a context consumer calls endDrag()
EndDrag ==
    /\ endDrag
    /\ dragEvent' = [NoDragEvent EXCEPT !.op = "endDrag", !.target = draggedObject]
    /\ UNCHANGED <<enabled, handle, registeredObjects, hoveredObject>>
    /\ UNCHANGED dragRest

\* starting a drag also empties the hovered reference
handleMouseDown_ClearsHover ==
    /\ enabled
    /\ \E ray \in Rays :
         LET found == FindRegistered(getIntersection(ray))
         IN  /\ IF found # {}
                THEN startDrag(The(found))
                ELSE UNCHANGED <<draggedObject, isDragging, handle>>
             /\ hoveredObject' = IF found # {} /\ handle[The(found)].isDraggable
                                 THEN {} ELSE hoveredObject
             /\ dragEvent' = [NoDragEvent EXCEPT !.op = "mouseDown",
                                                !.target = found,
                                                !.hit = Nearest(ray),
                                                !.was = draggedObject]
    /\ UNCHANGED <<enabled, position, registeredObjects>>
    /\ UNCHANGED dragRest

\* canvas 'mousedown' listener (attached only while enabled)
handleMouseDown ==
    /\ enabled
    /\ \E ray \in Rays :
         LET found == FindRegistered(getIntersection(ray))
         IN  /\ IF found # {}
                THEN startDrag(The(found))
                ELSE UNCHANGED <<draggedObject, isDragging, handle>>
             /\ dragEvent' = [NoDragEvent EXCEPT !.op = "mouseDown",
                                                !.target = found,
                                                !.hit = Nearest(ray),
                                                !.was = draggedObject]
    /\ UNCHANGED <<enabled, position, registeredObjects, hoveredObject>>
    /\ UNCHANGED dragRest

\* window 'mousemove' listener, drag branch (isDragging && draggedObject):
\* argument evaluation calls new Vector3().setFromNormalAndCoplanarPoint(...),
\* a method three.js defines on Plane and not on Vector3, so the handler
\* throws a TypeError before intersectPlane runs and before any position is
\* written
MouseMoveDrag ==
    /\ enabled
    /\ isDragging /\ draggedObject # {}
    /\ \E ray \in Rays, planeHit \in PlaneHits :
          dragEvent' = [NoDragEvent EXCEPT !.op = "mouseMove",
                                          !.target = draggedObject,
                                          !.hit = Nearest(ray),
                                          !.plane = planeHit,
                                          !.threw = TRUE]
    /\ UNCHANGED <<enabled, handle, position, registeredObjects, draggedObject,
                   hoveredObject, isDragging>>
    /\ UNCHANGED dragRest

\* the hover resolution runs whether or not a drag is in progress
MouseMoveHover_NoGuard ==
    /\ enabled
    /\ \E ray \in Rays :
          /\ hoveredObject' = FindRegistered(getIntersection(ray))
          /\ dragEvent' = [NoDragEvent EXCEPT !.op = "mouseMove",
                                             !.target = hoveredObject',
                                             !.hit = Nearest(ray)]
    /\ UNCHANGED <<enabled, handle, position, registeredObjects, draggedObject,
                   isDragging>>
    /\ UNCHANGED dragRest

\* window 'mousemove' listener, hover branch: setHoveredObject(found || null)
MouseMoveHover ==
    /\ enabled
    /\ ~(isDragging /\ draggedObject # {})
    /\ \E ray \in Rays :
          /\ hoveredObject' = FindRegistered(getIntersection(ray))
          /\ dragEvent' = [NoDragEvent EXCEPT !.op = "mouseMove",
                                             !.target = hoveredObject',
                                             !.hit = Nearest(ray)]
    /\ UNCHANGED <<enabled, handle, position, registeredObjects, draggedObject,
                   isDragging>>
    /\ UNCHANGED dragRest

\* window 'mousemove' listener (attached only while enabled)
handleMouseMove == MouseMoveDrag \/ MouseMoveHover

\* window 'mouseup' listener: if (isDragging) endDrag()
handleMouseUp ==
    /\ enabled
    /\ IF isDragging THEN endDrag
       ELSE UNCHANGED <<position, draggedObject, isDragging>>
    /\ dragEvent' = [NoDragEvent EXCEPT !.op = "mouseUp",
                                       !.target = IF isDragging THEN draggedObject ELSE {}]
    /\ UNCHANGED <<enabled, handle, registeredObjects, hoveredObject>>
    /\ UNCHANGED dragRest

DragNext ==
    \/ RegisterObject
    \/ UnregisterObject
    \/ StartDrag
    \/ EndDrag
    \/ handleMouseDown
    \/ handleMouseMove
    \/ handleMouseUp

(***************************************************************************)
(* InteractiveObject: the wrapper that registers its group with the        *)
(* registry.  One wrapper instance over the Object3D "o1"; the DragObject  *)
(* its memo builds is one of the references h1, h3.  A constraints prop is *)
(* an object with an identity (lit): an object literal written in the      *)
(* parent's JSX is a new object at every render of the parent.             *)
(***************************************************************************)
WrapperObject == "o1"
WrapperRefs   == {"h1", "h3"}

ConstraintProps ==
    { {} } \cup
    { {[lit |-> l, bounds |-> [Unbounded EXCEPT !.minY = {0}, !.maxX = {1}]]} :
         l \in 1..2 }

\* id, type, isDraggable = true, constraints, dragPlaneY = 1
WrapperProps ==
    [id : HandleIds, type : {"equipment", "chemical"}, isDraggable : BOOLEAN,
     constraints : ConstraintProps, dragPlaneY : {DragPlaneY, DragPlaneY + 1}]

DefaultProps ==
    [id |-> "obj-1", type |-> "equipment", isDraggable |-> TRUE,
     constraints |-> {}, dragPlaneY |-> DragPlaneY]

\* props: the props of the last render; groupRef: groupRef.current;
\* dragObject: the value of the memo; deps: the dependencies it was computed
\* for; cleanup: the id the pending effect cleanup will unregister
WrapperInit ==
    wrapper = [mounted |-> FALSE, props |-> DefaultProps, groupRef |-> {},
               dragObject |-> {}, deps |-> DefaultProps, cleanup |-> {}]

\* { minY: dragPlaneY - 0.5, ...constraints }: a bound the prop gives replaces
\* the default
SpreadConstraints(props) ==
    LET default == [Unbounded EXCEPT !.minY = {props.dragPlaneY - 1}]
    IN  IF props.constraints = {} THEN default
        ELSE LET c == The(props.constraints).bounds
             IN  [k \in DOMAIN default |-> IF c[k] # {} THEN c[k] ELSE default[k]]

\* A DragObject nothing refers to any more (its record is returned to the
\* initial one)
Collected(h) ==
    [id |-> HandleId(h), object |-> HandleObject(h), isDraggable |-> (h # "h3"),
     constraints |-> {}, initialPosition |-> Origin]

\* the callback of React.useMemo: null while the ref is not attached
MemoDragObject(props, groupRef, ref) ==
    IF groupRef = {} THEN [value |-> {}, record |-> {}]
    ELSE [value |-> {ref},
          record |-> {[id |-> props.id, object |-> The(groupRef),
                       isDraggable |-> props.isDraggable,
                       constraints |-> {SpreadConstraints(props)},
                       initialPosition |-> position[The(groupRef)]]}]

\* first render, commit (the ref is attached) and the effects of the mount
WrapperMount ==
    /\ ~wrapper.mounted
    /\ \E props \in WrapperProps :
         LET memo == MemoDragObject(props, wrapper.groupRef, "h1")
         IN  /\ wrapper' = [mounted |-> TRUE, props |-> props,
                            groupRef |-> {WrapperObject},
                            dragObject |-> memo.value, deps |-> props,
                            cleanup |-> IF memo.value # {} THEN {props.id} ELSE {}]
             /\ IF memo.value # {}
                THEN /\ handle' = [handle EXCEPT !["h1"] = The(memo.record)]
                     /\ registeredObjects' =
                           [k \in DOMAIN registeredObjects \cup {props.id} |->
                               IF k = props.id THEN "h1" ELSE registeredObjects[k]]
                ELSE UNCHANGED <<handle, registeredObjects>>
    /\ UNCHANGED <<enabled, position, draggedObject, hoveredObject, isDragging,
                   dragEvent>>
    /\ UNCHANGED wrapperRest

\* a later render with the props the parent passes: the memo is recomputed
\* when a dependency changed; the register effect re-runs when the memo's
\* value or the id changed, its previous cleanup first
WrapperRender ==
    /\ wrapper.mounted
    /\ \E props \in WrapperProps, ref \in WrapperRefs \ wrapper.dragObject :
         LET changed == props # wrapper.deps
             memo    == IF changed
                        THEN MemoDragObject(props, wrapper.groupRef, ref)
                        ELSE [value |-> wrapper.dragObject, record |-> {}]
             rerun   == memo.value # wrapper.dragObject \/ props.id # wrapper.props.id
             cleaned == IF rerun /\ wrapper.cleanup # {}
                        THEN unregisterObject(registeredObjects, The(wrapper.cleanup))
                        ELSE registeredObjects
         IN  /\ wrapper' = [wrapper EXCEPT
                              !.props = props,
                              !.dragObject = memo.value,
                              !.deps = IF changed THEN props ELSE @,
                              !.cleanup = IF ~rerun THEN @
                                          ELSE IF memo.value # {} THEN {props.id}
                                          ELSE {}]
             /\ handle' = IF memo.record # {}
                          THEN [h \in Handles |->
                                  IF h = ref THEN The(memo.record)
                                  ELSE IF h \in wrapper.dragObject THEN Collected(h)
                                  ELSE handle[h]]
                          ELSE handle
             /\ registeredObjects' =
                   IF rerun /\ memo.value # {}
                   THEN [k \in DOMAIN cleaned \cup {props.id} |->
                            IF k = props.id THEN The(memo.value) ELSE cleaned[k]]
                   ELSE cleaned
    /\ UNCHANGED <<enabled, position, draggedObject, hoveredObject, isDragging,
                   dragEvent>>
    /\ UNCHANGED wrapperRest

\* unmount: the pending cleanup runs, the ref is detached
WrapperUnmount ==
    /\ wrapper.mounted
    /\ wrapper' = [wrapper EXCEPT !.mounted = FALSE, !.groupRef = {},
                                  !.dragObject = {}, !.cleanup = {}]
    /\ registeredObjects' =
          IF wrapper.cleanup # {}
          THEN unregisterObject(registeredObjects, The(wrapper.cleanup))
          ELSE registeredObjects
    /\ handle' = [h \in Handles |->
                    IF h \in wrapper.dragObject THEN Collected(h) ELSE handle[h]]
    /\ UNCHANGED <<enabled, position, draggedObject, hoveredObject,
                   isDragging, dragEvent>>
    /\ UNCHANGED wrapperRest

WrapperNext == WrapperMount \/ WrapperRender \/ WrapperUnmount

(***************************************************************************)
(* Liquid system (LiquidSystemProvider)                                    *)
(*                                                                         *)
(* Units: time in ticks of 0.5 s, velocities in 0.1 m/s, positions in      *)
(* 0.05 m, so that position + velocity * delta needs no rescaling.  Of a   *)
(* Vector3 the model keeps the vertical component y and one horizontal     *)
(* component x; streams are vertical (source above or below the target).   *)
(* A particle's id, colour and size are React keys and material settings   *)
(* that no operation reads; they are left out.                             *)
(* The draws of Math.random() of one frame are an input of the frame.      *)
(***************************************************************************)
MaxParticles   == 3     \* particles alive at a time
MaxStreamIds   == 1     \* streams created in a run
MaxSplashCount == 2     \* largest count argument of createSplash

\* gravity = new Vector3(0, -9.82, 0), in 0.1 m/s per second (rounded)
GravityY == -100

Deltas == {1, 2}

\* lifetime 1.5 + random * 0.5 of a stream particle and 0.5 + random * 0.5 of
\* a splash particle, random in [0, 1): in whole ticks, 1.5 s and 0.5 s
StreamLifetime == 3
SplashLifetime == 1

Abs(n) == IF n < 0 THEN -n ELSE n

\* v * n / m, rounded towards zero
Scale(v, n, m) == IF v >= 0 THEN (v * n) \div m ELSE -(((-v) * n) \div m)

RECURSIVE Concat(_)
Concat(seqs) == IF seqs = <<>> THEN <<>> ELSE Head(seqs) \o Concat(Tail(seqs))

\* createParticle: the given position, velocity and lifetime, age 0
createParticle(y, vy, vx, lifetime) ==
    [y |-> y, vy |-> vy, vx |-> vx, lifetime |-> lifetime, age |-> 0]

\* createStreamParticle: on the stream path at a random progress, velocity
\* direction * (2 + random * 0.5) + gravity * 0.1, lifetime 1.5 + random * 0.5
createStreamParticle(stream, rnd) ==
    LET y   == IF rnd.progress = 0 THEN stream.sourceY ELSE stream.targetY
        dir == IF stream.targetY > stream.sourceY THEN 1
               ELSE IF stream.targetY < stream.sourceY THEN -1 ELSE 0
    IN  createParticle(y, dir * 20 + GravityY \div 10, 0, StreamLifetime)

\* Math.cos(angle) * (0.5 + random * 0.5) for particle i of count, in 0.1 m/s
SplashVx(count, i) ==
    CASE count = 1 -> 10
      [] count = 2 -> IF i = 1 THEN 10 ELSE -10
      [] OTHER     -> IF i = 1 THEN 10 ELSE -5

\* the particles createSplash(position, color, count) makes: upward velocity
\* 1 + random * 0.5, lifetime 0.5 + random * 0.5
SplashOf(y, count) ==
    [i \in 1..count |->
        createParticle(y, 10, SplashVx(count, i), SplashLifetime)]

\* an old particle is kept for ever
Expired_Never(newAge, lifetime) == FALSE

\* if (newAge > particle.lifetime) return null
Expired(newAge, lifetime) == newAge > lifetime

\* one stream particle in the frame callback: gravity, position, the target
\* test (distance below 0.1), age
StepStreamParticle(particle, delta, targetY) ==
    LET newVy == particle.vy + (GravityY * delta) \div 2
        newY  == particle.y + newVy * delta
    IN  [reached |-> Abs(newY - targetY) < 2,
         expired |-> Expired(particle.age + delta, particle.lifetime),
         particle |-> [particle EXCEPT !.y = newY, !.vy = newVy,
                                       !.age = particle.age + delta]]

\* the ground test is missing
StepSplashParticle_NoGround(particle, delta) ==
    LET vy == Scale(particle.vy + (GravityY * delta * 3) \div 4, 98, 100)
        vx == Scale(particle.vx, 98, 100)
    IN  [expired |-> Expired(particle.age + delta, particle.lifetime),
         particle |-> [particle EXCEPT !.y = particle.y + vy * delta,
                                       !.vy = vy, !.vx = vx,
                                       !.age = particle.age + delta]]

\* one splash particle in the frame callback: gravity * 1.5, damping 0.98,
\* position, ground contact (y < 0: y = 0, vy = 0, velocity * 0.5), age
StepSplashParticle(particle, delta) ==
    LET vy   == Scale(particle.vy + (GravityY * delta * 3) \div 4, 98, 100)
        vx   == Scale(particle.vx, 98, 100)
        newY == particle.y + vy * delta
        hit  == newY < 0
    IN  [expired |-> Expired(particle.age + delta, particle.lifetime),
         particle |-> [particle EXCEPT !.y = IF hit THEN 0 ELSE newY,
                                       !.vy = IF hit THEN 0 ELSE vy,
                                       !.vx = IF hit THEN Scale(vx, 1, 2) ELSE vx,
                                       !.age = particle.age + delta]]

\* prev.map(step).filter(p => p !== null) on the splash particles
StepSplash(particles, delta) ==
    LET stepped == [i \in 1..Len(particles) |-> StepSplashParticle(particles[i], delta)]
        kept    == SelectSeq(stepped, LAMBDA r : ~r.expired)
    IN  [i \in 1..Len(kept) |-> kept[i].particle]

\* The draws of Math.random() in one frame: the progress along the stream of
\* a spawned particle (its ends), and whether a particle that reached the
\* target splashes (random < 0.3)
Draws == [progress : {0, 1}, splash : BOOLEAN]

\* The containers of a pour (their heights) and its transfer rate in
\* 0.1 mL/s
PourData == [sourceY : {78}, targetY : {0}, transferRate : {5}]

\* Heights at which a consumer asks for a splash
SplashHeights == {-2, 80}

\* Math.floor(stream.flowRate * delta * 5)
ParticlesToAdd(flowRate, delta) == (flowRate * delta) \div 4

\* the stream active test of the push is missing
UpdateStream_SpawnsWhenStopped(stream, delta, rnd) ==
    IF ~stream.isActive /\ Len(stream.particles) = 0
    THEN [stream |-> stream, created |-> <<>>, spawned |-> 0]
    ELSE LET n == IF Len(stream.particles) * 10 < liquidProps.maxParticles
                  THEN ParticlesToAdd(stream.flowRate, delta)
                  ELSE 0
             spawned == [i \in 1..n |-> createStreamParticle(stream, rnd)]
             updated == stream.particles \o spawned
             stepped == [i \in 1..Len(updated) |->
                           StepStreamParticle(updated[i], delta, stream.targetY)]
             reached == SelectSeq(stepped, LAMBDA r : r.reached)
             kept    == SelectSeq(stepped, LAMBDA r : ~r.reached /\ ~r.expired)
             splashes == IF rnd.splash THEN Len(reached) ELSE 0
         IN  [stream  |-> [stream EXCEPT
                             !.particles = [i \in 1..Len(kept) |-> kept[i].particle]],
              created |-> Concat([j \in 1..splashes |->
                                    SplashOf(reached[j].particle.y, 3)]),
              spawned |-> n]

\* the callback of prev.map in the frame callback, for one stream
UpdateStream(stream, delta, rnd) ==
    IF ~stream.isActive /\ Len(stream.particles) = 0
    THEN [stream |-> stream, created |-> <<>>, spawned |-> 0]
    ELSE LET n == IF /\ stream.isActive
                     /\ Len(stream.particles) * 10 < liquidProps.maxParticles
                  THEN ParticlesToAdd(stream.flowRate, delta)
                  ELSE 0
             spawned == [i \in 1..n |-> createStreamParticle(stream, rnd)]
             updated == stream.particles \o spawned
             stepped == [i \in 1..Len(updated) |->
                           StepStreamParticle(updated[i], delta, stream.targetY)]
             reached == SelectSeq(stepped, LAMBDA r : r.reached)
             kept    == SelectSeq(stepped, LAMBDA r : ~r.reached /\ ~r.expired)
             splashes == IF rnd.splash THEN Len(reached) ELSE 0
         IN  [stream  |-> [stream EXCEPT
                             !.particles = [i \in 1..Len(kept) |-> kept[i].particle]],
              created |-> Concat([j \in 1..splashes |->
                                    SplashOf(reached[j].particle.y, 3)]),
              spawned |-> n]

\* prev.map(stream => ...) over the streams, in order
RECURSIVE UpdateStreams(_, _, _)
UpdateStreams(strs, delta, rnd) ==
    IF strs = <<>> THEN [streams |-> <<>>, created |-> <<>>, spawned |-> <<>>]
    ELSE LET first == UpdateStream(Head(strs), delta, rnd)
             rest  == UpdateStreams(Tail(strs), delta, rnd)
         IN  [streams |-> <<first.stream>> \o rest.streams,
              created |-> first.created \o rest.created,
              spawned |-> <<first.spawned>> \o rest.spawned]

ParticlesOf(strs) == Concat([i \in 1..Len(strs) |-> strs[i].particles])

\* the particles alive: those of every stream and the splash particles
LiveParticles(strs, splash) == Len(ParticlesOf(strs)) + Len(splash)

\* spawned: the number of particles the frame pushed to each stream
NoLiquidEvent == [op |-> "mount", delta |-> 0, spawned |-> <<>>]

\* enabled = true, maxParticles = 500
LiquidInit ==
    /\ liquidProps \in [enabled : BOOLEAN, maxParticles : {2, 20}]
    /\ streams = <<>>
    /\ splashParticles = <<>>
    /\ streamIdCounter = 0
    /\ timers = {}
    /\ liquidEvent = NoLiquidEvent

\* startPour(data)
LiquidStartPour ==
    /\ streamIdCounter < MaxStreamIds
    /\ \E data \in PourData :
          streams' = Append(streams,
                        [id |-> streamIdCounter,
                         sourceY |-> data.sourceY + 4,
                         targetY |-> data.targetY + 2,
                         particles |-> <<>>, isActive |-> TRUE,
                         flowRate |-> data.transferRate])
    /\ streamIdCounter' = streamIdCounter + 1
    /\ liquidEvent' = [NoLiquidEvent EXCEPT !.op = "startPour"]
    /\ UNCHANGED <<liquidProps, splashParticles, timers>>
    /\ UNCHANGED liquidRest

\* stopPour(streamId): the stream is marked inactive and its removal is
\* scheduled (setTimeout, 3000 ms).  The callbacks scheduled for one id are
\* the same filter and fire in the order of their scheduling, so the first
\* of them is kept for all.  issued: whether startPour had handed out the
\* id when stopPour was called
LiquidStopPour ==
    /\ \E streamId \in 0..MaxStreamIds :
          /\ streams' = [i \in 1..Len(streams) |->
                           IF streams[i].id = streamId
                           THEN [streams[i] EXCEPT !.isActive = FALSE]
                           ELSE streams[i]]
          /\ timers' = IF \E timer \in timers : timer.id = streamId
                        THEN timers
                        ELSE timers \cup {[id |-> streamId,
                                           issued |-> streamId < streamIdCounter]}
          /\ liquidEvent' = [NoLiquidEvent EXCEPT !.op = "stopPour"]
    /\ UNCHANGED <<liquidProps, splashParticles, streamIdCounter>>
    /\ UNCHANGED liquidRest

\* the timeout of stopPour fires: prev.filter(stream => stream.id !== streamId)
LiquidTimerFire ==
    /\ \E timer \in timers :
          /\ streams' = SelectSeq(streams, LAMBDA st : st.id # timer.id)
          /\ timers' = timers \ {timer}
          /\ liquidEvent' = [NoLiquidEvent EXCEPT !.op = "timer"]
    /\ UNCHANGED <<liquidProps, splashParticles, streamIdCounter>>
    /\ UNCHANGED liquidRest

\* createSplash(position, color, count) called by a context consumer
LiquidCreateSplash ==
    /\ \E y \in SplashHeights, count \in 1..MaxSplashCount :
          /\ splashParticles' = splashParticles \o SplashOf(y, count)
          /\ LiveParticles(streams, splashParticles') <= MaxParticles
          /\ liquidEvent' = [NoLiquidEvent EXCEPT !.op = "createSplash"]
    /\ UNCHANGED <<liquidProps, streams, streamIdCounter, timers>>
    /\ UNCHANGED liquidRest

\* the id counter starts again after a clear
LiquidClearAllStreams_ResetsCounter ==
    /\ streams' = <<>>
    /\ splashParticles' = <<>>
    /\ streamIdCounter' = 0
    /\ liquidEvent' = [NoLiquidEvent EXCEPT !.op = "clearAllStreams"]
    /\ UNCHANGED <<liquidProps, timers>>
    /\ UNCHANGED liquidRest

\* clearAllStreams()
LiquidClearAllStreams ==
    /\ streams' = <<>>
    /\ splashParticles' = <<>>
    /\ liquidEvent' = [NoLiquidEvent EXCEPT !.op = "clearAllStreams"]
    /\ UNCHANGED <<liquidProps, streamIdCounter, timers>>
    /\ UNCHANGED liquidRest

\* the orders in which the splash particles created by the stream update
\* and the frame's own splash update can apply; they differ only when
\* there are created particles
Orders(created) ==
    IF created = <<>> THEN {"stepFirst"} ELSE {"appendFirst", "stepFirst"}

\* the frame drops the streams that are inactive and empty
LiquidFrame_RemovesIdle ==
    /\ liquidProps.enabled
    /\ \E delta \in Deltas, rnd \in Draws :
         LET u == UpdateStreams(streams, delta, rnd)
         IN  /\ streams' = SelectSeq(u.streams,
                              LAMBDA st : st.isActive \/ Len(st.particles) > 0)
             /\ \E order \in Orders(u.created) :
                   splashParticles' =
                      IF order = "appendFirst"
                      THEN StepSplash(splashParticles \o u.created, delta)
                      ELSE StepSplash(splashParticles, delta) \o u.created
             /\ LiveParticles(streams', splashParticles') <= MaxParticles
             /\ liquidEvent' = [NoLiquidEvent EXCEPT !.op = "frame", !.delta = delta,
                                                    !.spawned = u.spawned]
    /\ UNCHANGED <<liquidProps, streamIdCounter, timers>>
    /\ UNCHANGED liquidRest

\* the useFrame callback.  createSplash runs inside the setStreams updater:
\* when React evaluates that updater eagerly its setSplashParticles precedes
\* the frame's own (appendFirst), when the updater runs during the render it
\* follows it (stepFirst)
LiquidFrame ==
    /\ liquidProps.enabled
    /\ \E delta \in Deltas, rnd \in Draws :
         LET u == UpdateStreams(streams, delta, rnd)
         IN  /\ streams' = u.streams
             /\ \E order \in Orders(u.created) :
                   splashParticles' =
                      IF order = "appendFirst"
                      THEN StepSplash(splashParticles \o u.created, delta)
                      ELSE StepSplash(splashParticles, delta) \o u.created
             /\ LiveParticles(streams', splashParticles') <= MaxParticles
             /\ liquidEvent' = [NoLiquidEvent EXCEPT !.op = "frame", !.delta = delta,
                                                    !.spawned = u.spawned]
    /\ UNCHANGED <<liquidProps, streamIdCounter, timers>>
    /\ UNCHANGED liquidRest

LiquidNext ==
    \/ LiquidStartPour
    \/ LiquidStopPour
    \/ LiquidTimerFire
    \/ LiquidCreateSplash
    \/ LiquidClearAllStreams
    \/ LiquidFrame

(***************************************************************************)
(* Experiment page: fetchExperiment, updateProgress, markAsComplete        *)
(*                                                                         *)
(* A call of an async function is a task that stops at each await.  A      *)
(* request to the remote store ends in one of three ways: "ok", "error"    *)
(* (the promise resolves to a result whose error field is set) or "throw"  *)
(* (the promise rejects).                                                  *)
(***************************************************************************)
MaxTasks == 5           \* calls of the page's async functions in a run

Outcomes == {"ok", "error", "throw"}

PageUser       == "u1"
PageExperiment == "e1"

\* the experiment ids a route can name
PageExperiments == {PageExperiment, "e2"}

\* user_progress rows: insert (progress_percentage: 0), upsert (completed:
\* true, progress_percentage: 100)
InsertedRow == [completed |-> FALSE, progress_percentage |-> 0]
UpsertedRow == [completed |-> TRUE, progress_percentage |-> 100]

LoadFailed     == "Failed to load experiment"
ProgressFailed == "Failed to update progress"
Completed      == "You've completed this experiment!"

\* fn: the function; pc: the await it stops at, or "done"; id: the
\* experimentId it closed over; user: data.user; existing: existingProgress;
\* outcome: how the select of fetchExperiment or the upsert of markAsComplete
\* ended
NewTask(fn, pc, id) ==
    [fn |-> fn, pc |-> pc, id |-> id, user |-> {}, existing |-> {},
     outcome |-> "none"]

\* useState(null), useState(true); the route parameter may be missing
PageInit ==
    /\ session \in {{}, {PageUser}}
    /\ userProgress \in {{}, {InsertedRow}}
    /\ \E id \in {{}, {PageExperiment}} :
          page = [mounted |-> FALSE, experimentId |-> id, experiment |-> {},
                  loading |-> TRUE]
    /\ tasks = <<>>
    /\ toasts = {}

\* the effect of the mount: if (experimentId) { fetchExperiment(); updateProgress() }
PageMount ==
    /\ ~page.mounted /\ tasks = <<>> /\ page.loading
    /\ page' = [page EXCEPT !.mounted = TRUE]
    /\ tasks' = IF page.experimentId # {}
                THEN << NewTask("fetchExperiment", "select", page.experimentId),
                        NewTask("updateProgress", "getUser", page.experimentId) >>
                ELSE <<>>
    /\ UNCHANGED <<session, userProgress, toasts>>
    /\ UNCHANGED pageRest

\* the route changes to another experiment while the page stays mounted: the
\* effect runs again for the new experimentId; the calls of the earlier run
\* are not cancelled
PageRouteChange ==
    /\ page.mounted
    /\ Len(tasks) + 2 <= MaxTasks
    /\ \E id \in PageExperiments :
          /\ {id} # page.experimentId
          /\ page' = [page EXCEPT !.experimentId = {id}]
          /\ tasks' = tasks \o << NewTask("fetchExperiment", "select", {id}),
                                  NewTask("updateProgress", "getUser", {id}) >>
    /\ UNCHANGED <<session, userProgress, toasts>>
    /\ UNCHANGED pageRest

\* fetchExperiment after its await: if (error) throw error; setExperiment(data);
\* catch: toast, navigate("/lab"); finally: setLoading(false)
FetchExperimentReturns ==
    /\ \E i \in 1..Len(tasks), outcome \in Outcomes :
          /\ tasks[i].fn = "fetchExperiment" /\ tasks[i].pc = "select"
          /\ tasks' = [tasks EXCEPT ![i].pc = "done", ![i].outcome = outcome]
          /\ IF outcome = "ok"
             THEN /\ page' = IF page.mounted
                             THEN [page EXCEPT !.experiment = tasks[i].id,
                                               !.loading = FALSE]
                             ELSE page
                  /\ UNCHANGED toasts
             ELSE /\ page' = [page EXCEPT !.mounted = FALSE]
                  /\ toasts' = toasts \cup {[task |-> i, description |-> LoadFailed]}
    /\ UNCHANGED <<session, userProgress>>
    /\ UNCHANGED pageRest

\* the Complete button (rendered once the experiment is loaded): markAsComplete()
MarkAsCompleteClick ==
    /\ page.mounted /\ ~page.loading /\ page.experiment # {}
    /\ Len(tasks) < MaxTasks
    /\ tasks' = Append(tasks, NewTask("markAsComplete", "getUser", page.experimentId))
    /\ UNCHANGED <<session, userProgress, page, toasts>>
    /\ UNCHANGED pageRest

\* the Back button: navigate("/lab")
BackToDashboard ==
    /\ page.mounted /\ ~page.loading /\ page.experiment # {}
    /\ page' = [page EXCEPT !.mounted = FALSE]
    /\ UNCHANGED <<session, userProgress, tasks, toasts>>
    /\ UNCHANGED pageRest

\* the catch block of the function: console.error in updateProgress, the
\* error toast in markAsComplete
Caught(i) ==
    IF tasks[i].fn = "markAsComplete"
    THEN toasts \cup {[task |-> i, description |-> ProgressFailed]}
    ELSE toasts

\* updateProgress / markAsComplete after await supabase.auth.getUser():
\* if (!user) return
GetUserReturns ==
    /\ \E i \in 1..Len(tasks), outcome \in Outcomes :
          /\ tasks[i].pc = "getUser"
          /\ LET user == IF outcome = "ok" THEN session ELSE {}
             IN  IF outcome = "throw"
                 THEN /\ tasks' = [tasks EXCEPT ![i].pc = "done"]
                      /\ toasts' = Caught(i)
                 ELSE /\ tasks' = [tasks EXCEPT
                             ![i].user = user,
                             ![i].pc = IF user = {} THEN "done"
                                       ELSE IF tasks[i].fn = "markAsComplete"
                                       THEN "upsert" ELSE "select"]
                      /\ UNCHANGED toasts
    /\ UNCHANGED <<session, userProgress, page>>
    /\ UNCHANGED pageRest

\* updateProgress after the select ... maybeSingle(): the error field is not
\* read, data is null when the request failed
SelectProgressReturns ==
    /\ \E i \in 1..Len(tasks), outcome \in Outcomes :
          /\ tasks[i].fn = "updateProgress" /\ tasks[i].pc = "select"
          /\ LET existing == IF outcome = "ok" THEN userProgress ELSE {}
             IN  tasks' = IF outcome = "throw"
                          THEN [tasks EXCEPT ![i].pc = "done"]
                          ELSE [tasks EXCEPT
                                  ![i].existing = existing,
                                  ![i].pc = IF existing = {} THEN "insert"
                                            ELSE "update"]
    /\ UNCHANGED <<session, userProgress, page, toasts>>
    /\ UNCHANGED pageRest

\* updateProgress after its insert or update; the result is not read
WriteProgressReturns ==
    /\ \E i \in 1..Len(tasks), outcome \in Outcomes :
          /\ tasks[i].fn = "updateProgress" /\ tasks[i].pc \in {"insert", "update"}
          /\ tasks' = [tasks EXCEPT ![i].pc = "done"]
          /\ userProgress' = IF outcome = "ok" /\ tasks[i].pc = "insert"
                             THEN {InsertedRow} ELSE userProgress
    /\ UNCHANGED <<session, page, toasts>>
    /\ UNCHANGED pageRest

\* markAsComplete after its upsert: the result is not read, the success toast
\* follows unless the promise rejected
UpsertReturns ==
    /\ \E i \in 1..Len(tasks), outcome \in Outcomes :
          /\ tasks[i].fn = "markAsComplete" /\ tasks[i].pc = "upsert"
          /\ tasks' = [tasks EXCEPT ![i].pc = "done", ![i].outcome = outcome]
          /\ userProgress' = IF outcome = "ok" THEN {UpsertedRow} ELSE userProgress
          /\ toasts' = IF outcome = "throw"
                       THEN Caught(i)
                       ELSE toasts \cup {[task |-> i, description |-> Completed]}
    /\ UNCHANGED <<session, page>>
    /\ UNCHANGED pageRest

PageNext ==
    \/ PageMount
    \/ PageRouteChange
    \/ FetchExperimentReturns
    \/ MarkAsCompleteClick
    \/ BackToDashboard
    \/ GetUserReturns
    \/ SelectProgressReturns
    \/ WriteProgressReturns
    \/ UpsertReturns

(***************************************************************************)
(* ReactionEffect and PouringEffect: the auto-completion timer             *)
(*                                                                         *)
(* Both components have the same effect, with deps [isActive, onComplete]: *)
(* if isActive, setTimeout(() => onComplete?.(), delay) and a cleanup that *)
(* clears that timer.  Time is in seconds; a timer whose remaining time is *)
(* 0 is due and fires unless it is cleared first.                          *)
(***************************************************************************)
MaxActivations == 2     \* activations of the effect in a run
MaxTimers      == 3     \* timers scheduled in a run

EffectKinds == {"ReactionEffect", "PouringEffect"}

\* setTimeout(..., 3000) in ReactionEffect, setTimeout(..., 2000) in
\* PouringEffect
EffectDelay(kind) == IF kind = "ReactionEffect" THEN 3 ELSE 2

\* the props the effect reads: isActive and the optional onComplete
EffectProps == [isActive : BOOLEAN, onComplete : {{}, {"cb1"}, {"cb2"}}]

\* activation: the number of the current (or last) activation; nextTimer: the
\* handle setTimeout returns next; cleanup: the timer the pending cleanup
\* function clears, if the last run of the effect returned one
EffectInit ==
    /\ \E kind \in EffectKinds :
          effect = [kind |-> kind, mounted |-> FALSE, isActive |-> FALSE,
                    onComplete |-> {}, activation |-> 0, nextTimer |-> 1,
                    cleanup |-> {}]
    /\ effectTimers = {}
    /\ onCompleteCalls = {}
    /\ tornDown = {}

\* the cleanup function is left out: the timer stays pending
RunCleanup_KeepsTimer(cleanup) == effectTimers

\* return () => clearTimeout(timer): the timers left after the cleanup ran
RunCleanup(cleanup) == { t \in effectTimers : t.id \notin cleanup }

\* the body of the effect for the given props: the timer it schedules
Scheduled(kind, props, activation, id) ==
    IF props.isActive
    THEN {[id |-> id, activation |-> activation,
           callback |-> props.onComplete, remaining |-> EffectDelay(kind)]}
    ELSE {}

\* the activations that end here without onComplete having been invoked
Torn(ended) == tornDown \cup (ended \ onCompleteCalls)

\* the component mounts: the effect runs
EffectMount ==
    /\ ~effect.mounted
    /\ \E props \in EffectProps :
          LET activation == IF props.isActive THEN effect.activation + 1
                            ELSE effect.activation
              new == Scheduled(effect.kind, props, activation, effect.nextTimer)
          IN  /\ activation <= MaxActivations
              /\ new # {} => effect.nextTimer <= MaxTimers
              /\ effect' = [effect EXCEPT
                              !.mounted = TRUE, !.isActive = props.isActive,
                              !.onComplete = props.onComplete,
                              !.activation = activation,
                              !.nextTimer = IF new # {} THEN @ + 1 ELSE @,
                              !.cleanup = { t.id : t \in new }]
              /\ effectTimers' = effectTimers \cup new
    /\ UNCHANGED <<onCompleteCalls, tornDown>>
    /\ UNCHANGED effectRest

\* the component renders with new props: when isActive or onComplete
\* changed, the pending cleanup runs and then the effect
EffectRender ==
    /\ effect.mounted
    /\ \E props \in EffectProps :
          /\ <<props.isActive, props.onComplete>> #
                <<effect.isActive, effect.onComplete>>
          /\ LET activation == IF props.isActive /\ ~effect.isActive
                               THEN effect.activation + 1
                               ELSE effect.activation
                 new == Scheduled(effect.kind, props, activation, effect.nextTimer)
             IN  /\ activation <= MaxActivations
                 /\ new # {} => effect.nextTimer <= MaxTimers
                 /\ effect' = [effect EXCEPT
                                 !.isActive = props.isActive,
                                 !.onComplete = props.onComplete,
                                 !.activation = activation,
                                 !.nextTimer = IF new # {} THEN @ + 1 ELSE @,
                                 !.cleanup = { t.id : t \in new }]
                 /\ effectTimers' = RunCleanup(effect.cleanup) \cup new
                 /\ tornDown' = IF effect.isActive /\ ~props.isActive
                                THEN Torn({effect.activation})
                                ELSE tornDown
    /\ UNCHANGED onCompleteCalls
    /\ UNCHANGED effectRest

\* the component unmounts: the pending cleanup runs
EffectUnmount ==
    /\ effect.mounted
    /\ effect' = [effect EXCEPT !.mounted = FALSE, !.isActive = FALSE,
                                !.onComplete = {}, !.cleanup = {}]
    /\ effectTimers' = RunCleanup(effect.cleanup)
    /\ tornDown' = IF effect.isActive THEN Torn({effect.activation}) ELSE tornDown
    /\ UNCHANGED onCompleteCalls
    /\ UNCHANGED effectRest

\* a second passes and no timer is due
EffectTick ==
    /\ effectTimers # {}
    /\ \A t \in effectTimers : t.remaining > 0
    /\ effectTimers' = { [t EXCEPT !.remaining = @ - 1] : t \in effectTimers }
    /\ UNCHANGED <<effect, onCompleteCalls, tornDown>>
    /\ UNCHANGED effectRest

\* a due timer fires: onComplete?.()
EffectTimerFires ==
    /\ \E t \in effectTimers :
          /\ t.remaining = 0
          /\ effectTimers' = effectTimers \ {t}
          /\ onCompleteCalls' = IF t.callback # {}
                                THEN onCompleteCalls \cup {t.activation}
                                ELSE onCompleteCalls
    /\ UNCHANGED <<effect, tornDown>>
    /\ UNCHANGED effectRest

EffectNext ==
    \/ EffectMount
    \/ EffectRender
    \/ EffectUnmount
    \/ EffectTick
    \/ EffectTimerFires

(***************************************************************************)
(* Specifications: one per component, the other components at rest         *)
(***************************************************************************)
EffectIdle ==
    /\ effect = [kind |-> "ReactionEffect", mounted |-> FALSE, isActive |-> FALSE,
                 onComplete |-> {}, activation |-> 0, nextTimer |-> 1,
                 cleanup |-> {}]
    /\ effectTimers = {}
    /\ onCompleteCalls = {}
    /\ tornDown = {}

PageIdle ==
    /\ session = {}
    /\ userProgress = {}
    /\ page = [mounted |-> FALSE, experimentId |-> {}, experiment |-> {},
               loading |-> TRUE]
    /\ tasks = <<>>
    /\ toasts = {}

LiquidIdle ==
    /\ liquidProps = [enabled |-> TRUE, maxParticles |-> 500]
    /\ streams = <<>>
    /\ splashParticles = <<>>
    /\ streamIdCounter = 0
    /\ timers = {}
    /\ liquidEvent = NoLiquidEvent

ReactionIdle ==
    /\ experiments = <<>>
    /\ reactionPc = "init"
    /\ reactionLogic = <<>>
    /\ trigger = NoTrigger

DragIdle ==
    /\ enabled = TRUE
    /\ position = [o \in Objects |-> Origin]
    /\ handle = [h \in Handles |->
                   [id |-> HandleId(h), object |-> HandleObject(h),
                    isDraggable |-> (h # "h3"), constraints |-> {},
                    initialPosition |-> Origin]]
    /\ registeredObjects = <<>>
    /\ draggedObject = {}
    /\ hoveredObject = {}
    /\ isDragging = FALSE
    /\ dragEvent = NoDragEvent

VesselIdle ==
    /\ vessel = [kind |-> "Beaker", maxVolume |-> MaxVolume, volume |-> 0,
                 isDraggable |-> FALSE, currentVolume |-> 0,
                 isPouring |-> FALSE, isCapOpen |-> FALSE, hovered |-> FALSE,
                 isDragging |-> FALSE]
    /\ rendered = StateOf(vessel)
    /\ vesselEvent = [op |-> "mount", poured |-> 0]
    /\ gesture = {}
    /\ pour = [startVolume |-> 0, ends |-> 0]

InitReaction == ReactionInit /\ DragIdle /\ VesselIdle /\ WrapperInit /\ LiquidIdle /\ PageIdle
                /\ EffectIdle
SpecReaction == InitReaction /\ [][ReactionNext]_vars

InitDrag     == DragInit /\ ReactionIdle /\ VesselIdle /\ WrapperInit /\ LiquidIdle /\ PageIdle
                /\ EffectIdle
SpecDrag     == InitDrag /\ [][DragNext]_vars

InitVessel   == VesselInit /\ ReactionIdle /\ DragIdle /\ WrapperInit /\ LiquidIdle /\ PageIdle
                /\ EffectIdle
SpecVessel   == InitVessel /\ [][VesselNext]_vars

InitWrapper  == WrapperInit /\ DragIdle /\ ReactionIdle /\ VesselIdle /\ LiquidIdle /\ PageIdle
                /\ EffectIdle
SpecWrapper  == InitWrapper /\ [][WrapperNext]_vars

InitLiquid   == LiquidInit /\ ReactionIdle /\ DragIdle /\ VesselIdle /\ WrapperInit /\ PageIdle
                /\ EffectIdle
SpecLiquid   == InitLiquid /\ [][LiquidNext]_vars

InitPage     == PageInit /\ ReactionIdle /\ DragIdle /\ VesselIdle /\ WrapperInit
                /\ LiquidIdle /\ EffectIdle
SpecPage     == InitPage /\ [][PageNext]_vars

InitEffect   == EffectInit /\ ReactionIdle /\ DragIdle /\ VesselIdle /\ WrapperInit
                /\ LiquidIdle /\ PageIdle
SpecEffect   == InitEffect /\ [][EffectNext]_vars

(***************************************************************************)
(* Properties of Reaction Lookup (checked under SpecReaction)              *)
(***************************************************************************)
\* Two spellings that differ at most in the case of their letters
SameIgnoringCase(a, b) ==
    /\ Len(a) = Len(b)
    /\ \A i \in 1..Len(a) :
          \/ a[i] = b[i]
          \/ \E k \in 1..Len(UpperChars) :
                {a[i], b[i]} = {UpperChars[k], LowerChars[k]}

\* The documented outcome of a category, whatever its spelling
DocumentedResult(category) ==
    CASE SameIgnoringCase(category, AcidBase) ->
            <<"Neutralization reaction occurred", "color-change", 8>>
      [] SameIgnoringCase(category, Precipitation) ->
            <<"Precipitation reaction occurred", "precipitation", 9>>
      [] SameIgnoringCase(category, Combustion) ->
            <<"Combustion reaction occurred", "heat-release", 10>>
      [] OTHER ->
            <<"Reaction occurred", "color-change", 7>>

\* The position of the experiment that decides the entry of its id: the last
\* one of the list with that id
Decides(i) ==
    \A j \in 1..Len(experiments) : experiments[j].id = experiments[i].id => j <= i

\* C1: generateReactionLogic maps every experiment id to the result fixed by
\* the category alone - acid-base, precipitation, combustion or the generic
\* fallback - and the upper/lower-case spelling of the category never changes
\* the result.
C1_CategoryFixesResult ==
    reactionPc = "generated" =>
        \A i \in 1..Len(experiments) :
            Decides(i) =>
                LET r == reactionLogic[experiments[i].id]
                    d == DocumentedResult(experiments[i].category)
                IN  /\ r.outcomeText = d[1]
                    /\ r.effects = << [type |-> d[2], intensity |-> d[3]] >>

\* an upper-case combustion experiment and an unmatched category, both mapped
C1_Witness ==
    /\ reactionPc = "generated"
    /\ \E i, j \in 1..Len(experiments) :
          /\ experiments[i].id # experiments[j].id
          /\ experiments[i].category = <<"C","O","M","B","U","S","T","I","O","N">>
          /\ reactionLogic[experiments[i].id].outcomeText =
                "Combustion reaction occurred"
          /\ experiments[j].category = <<"a","c","i","d"," ","b","a","s","e">>
          /\ reactionLogic[experiments[j].id].outcomeText = "Reaction occurred"

\* C2: checkReactionTrigger returns the stored result of experimentId if and
\* only if at least two chemicals are combined and a result is stored for that
\* id; in every other case it returns null.
C2_TriggerIffCountAndStored ==
    trigger.called =>
        /\ trigger.result # {} <=>
              /\ Len(trigger.chemicalIds) >= 2
              /\ trigger.experimentId \in DOMAIN reactionLogic
        /\ trigger.result # {} =>
              trigger.result = {reactionLogic[trigger.experimentId]}

\* exactly two chemicals on a stored id: the stored result comes back
C2_Witness ==
    /\ trigger.called
    /\ Len(trigger.chemicalIds) = 2
    /\ trigger.experimentId \in DOMAIN reactionLogic
    /\ trigger.result = {reactionLogic[trigger.experimentId]}

\* C3 as stated: a result is returned only if at least two DISTINCT chemical
\* ids are combined; a collection of equal ids yields no result.
C3_Original_DistinctIds ==
    (trigger.called /\ trigger.result # {}) =>
        Cardinality(Range(trigger.chemicalIds)) >= 2

\* C3 amended: a result is returned only if the chemicalIds array has at least
\* two entries, repetitions counted; two or more entries of one and the same
\* id yield the stored result whenever one is stored.
C3_Amended_CountsEntries ==
    trigger.called =>
        /\ trigger.result # {} => Len(trigger.chemicalIds) >= 2
        /\ ( /\ Len(trigger.chemicalIds) >= 2
             /\ Cardinality(Range(trigger.chemicalIds)) = 1
             /\ trigger.experimentId \in DOMAIN reactionLogic )
           => trigger.result # {}

\* the same chemical twice triggers the reaction
C3_Witness ==
    /\ trigger.called
    /\ trigger.chemicalIds = <<"HCl", "HCl">>
    /\ trigger.result # {}

\* The mapping has exactly the distinct experiment ids as keys, and every
\* result carries one effect of intensity within [0,1]
WellFormedLogic(logic, exps) ==
    /\ DOMAIN logic = {exps[i].id : i \in 1..Len(exps)}
    /\ \A k \in DOMAIN logic :
          /\ Len(logic[k].effects) = 1
          /\ logic[k].effects[1].intensity \in 0..10

\* C4: the mapping returned by generateReactionLogic has one result for each
\* distinct experiment id and no other key, each with exactly one effect of
\* intensity in [0,1], and no later checkReactionTrigger call changes it.
C4_OneResultNeverMutated ==
    [][ /\ reactionPc' = "generated" => WellFormedLogic(reactionLogic', experiments')
        /\ reactionPc = "generated" => reactionLogic' = reactionLogic ]_vars

\* two experiments under one id gave one entry, and a trigger returned it
C4_Witness ==
    /\ reactionPc = "generated"
    /\ Len(experiments) = 2
    /\ Cardinality(DOMAIN reactionLogic) = 1
    /\ trigger.called
    /\ trigger.result # {}

(***************************************************************************)
(* Properties of the vessels (checked under SpecVessel)                    *)
(***************************************************************************)
Clamp(v, lo, hi) == Max(lo, Min(hi, v))

InRange(v) == 0 <= v.currentVolume /\ v.currentVolume <= v.maxVolume

AxisWithin(lo, hi, p, q) ==
    /\ lo # {} => q >= The(lo)
    /\ hi # {} => q <= The(hi)
    /\ (lo = {} /\ hi = {}) => q = p

\* C6: after end-drag the released handle's coordinate lies, on every axis,
\* within the bounds configured for that axis, wherever the handle stood; a
\* coordinate without a configured bound is unchanged; and the dragged
\* reference is empty afterwards.
C6_EndDragClamps ==
    [][ dragEvent'.op \in {"endDrag", "mouseUp"} /\ (dragEvent'.op = "mouseUp" => isDragging) =>
          /\ draggedObject' = {}
          /\ \A h \in draggedObject :
                LET p == position[handle[h].object]
                    q == position'[handle[h].object]
                IN  IF handle[h].constraints = {} THEN q = p
                    ELSE LET c == The(handle[h].constraints)
                         IN  /\ AxisWithin(c.minX, c.maxX, p.x, q.x)
                             /\ AxisWithin(c.minY, c.maxY, p.y, q.y)
                             /\ AxisWithin(c.minZ, c.maxZ, p.z, q.z) ]_vars

\* a handle with only minY = 0.5, picked up at y = -0.5, released at y = 0.5
\* with x and z as they were
C6_Witness ==
    /\ dragEvent.op \in {"endDrag", "mouseUp"}
    /\ dragEvent.target = {"h1"}
    /\ handle["h1"].constraints = {WrapperDefault}
    /\ handle["h1"].initialPosition = [x |-> -1, y |-> -1, z |-> -1]
    /\ position["o1"] = [x |-> -1, y |-> 1, z |-> -1]
    /\ draggedObject = {}

\* C7: after register(handle) and unregister(handle.id) the id is out of the
\* registry, and as long as a handle is not registered no pointer-down or
\* pointer-move resolves to it: no such event makes it the dragged or the
\* hovered handle.
C7_UnregisteredNeverResolved ==
    [][ /\ dragEvent'.op = "unregister" =>
              dragEvent'.id \notin DOMAIN registeredObjects'
        /\ dragEvent'.op \in {"mouseDown", "mouseMove"} =>
              \A h \in Handles \ Registered :
                 /\ h \in draggedObject' => h \in draggedObject
                 /\ h \in hoveredObject' => h \in hoveredObject ]_vars

\* h1 was hovered (so it was registered), its id was unregistered, and a
\* pointer-down right over its object resolved to nothing
C7_Witness ==
    /\ dragEvent.op = "mouseDown"
    /\ \E m \in dragEvent.hit : m.object = "o1"
    /\ dragEvent.target = {}
    /\ hoveredObject = {"h1"}
    /\ "obj-1" \notin DOMAIN registeredObjects
    /\ draggedObject = {}

\* C8: unregister(id) for an id that is not in the registry raises no error
\* and leaves the registered handles, the dragged reference and the hovered
\* reference unchanged.
C8_UnregisterUnknownIsNoOp ==
    [][ (dragEvent'.op = "unregister" /\ dragEvent'.id \notin DOMAIN registeredObjects) =>
          /\ registeredObjects' = registeredObjects
          /\ draggedObject' = draggedObject
          /\ hoveredObject' = hoveredObject
          /\ ~dragEvent'.threw ]_vars

\* an unknown id unregistered while handles are registered, hovered and dragged
C8_Witness ==
    /\ dragEvent.op = "unregister"
    /\ dragEvent.id = UnknownHandleId
    /\ DOMAIN registeredObjects = HandleIds
    /\ draggedObject # {}
    /\ hoveredObject # {}

C10_NonDraggableUntouched ==
    [][ /\ \A h \in Handles :
              ( /\ dragEvent'.op \in {"startDrag", "mouseDown"}
                /\ dragEvent'.target = {h}
                /\ ~handle[h].isDraggable )
              => UNCHANGED <<draggedObject, isDragging, handle, position>>
        /\ \A h \in draggedObject' : handle'[h].isDraggable ]_vars

\* start-drag on the non-draggable h3 during a drag of h2 left that drag alone
C10_Witness ==
    /\ dragEvent.op \in {"startDrag", "mouseDown"}
    /\ dragEvent.target = {"h3"}
    /\ dragEvent.was = {"h2"}
    /\ draggedObject = {"h2"}
    /\ isDragging

\* a pointer-move that ran the drag branch of handleMouseMove
DragMove == dragEvent'.op = "mouseMove" /\ isDragging /\ draggedObject # {}

\* C11: during a drag, a pointer-move whose pointer ray does not meet the drag
\* plane raises no error and leaves every position as it was.
C11_InvalidIntersectionIsSkipped ==
    [][ (DragMove /\ dragEvent'.plane = {}) =>
          /\ ~dragEvent'.threw
          /\ position' = position ]_vars

\* C17: while a drag is in progress a pointer-move leaves the hovered
\* reference as it was, whatever is under the pointer.
C17_NoHoverResolutionWhileDragging ==
    [][ DragMove => hoveredObject' = hoveredObject ]_vars

\* h1 is dragged and hovered, the pointer moved over the registered h2, and
\* h1 is still the hovered handle
C17_Witness ==
    /\ dragEvent.op = "mouseMove"
    /\ dragEvent.target = {"h1"}
    /\ isDragging /\ draggedObject = {"h1"}
    /\ \E m \in dragEvent.hit : m.object = "o2" /\ m.depth = 0
    /\ "obj-2" \in DOMAIN registeredObjects
    /\ hoveredObject = {"h1"}

\* C18 as stated: in every reachable state in which a handle is dragged, no
\* handle is hovered.
C18_Original_HoverExcludesDrag ==
    draggedObject # {} => hoveredObject = {}

\* C18 amended: a step that ends with a handle dragged leaves the hovered
\* reference as it was: pointer-down does not empty it, and nothing changes
\* it while the handle is dragged.
C18_Amended_HoverKeptWhileDragged ==
    [][ draggedObject' # {} => hoveredObject' = hoveredObject ]_vars

\* pointer-down on the hovered h1: h1 is dragged and still hovered
C18_Witness ==
    /\ dragEvent.op = "mouseDown"
    /\ dragEvent.target = {"h1"}
    /\ dragEvent.was = {}
    /\ isDragging /\ draggedObject = {"h1"}
    /\ hoveredObject = {"h1"}

\* The registered handles that own the mesh, at any depth of their object
Owners(hit) == {h \in Registered : \E m \in hit : handle[h].object = m.object}

\* C19: whenever the nearest mesh under the pointer lies in the subtree of a
\* registered handle's object, at any depth, pointer-down resolves to that
\* handle and starts its drag if it is draggable, and pointer-move outside a
\* drag makes it the hovered handle.
C19_ResolvesOwnerOfNearestHit ==
    [][ (dragEvent'.op \in {"mouseDown", "mouseMove"} /\ ~DragMove
         /\ Owners(dragEvent'.hit) # {}) =>
          LET owner == Owners(dragEvent'.hit)
          IN  /\ dragEvent'.target = owner
              /\ dragEvent'.op = "mouseDown" =>
                    (handle[The(owner)].isDraggable => draggedObject' = owner)
              /\ dragEvent'.op = "mouseMove" => hoveredObject' = owner ]_vars

\* C20: while a handle is dragged, a pointer-move whose ray meets the drag
\* plane moves the dragged handle's object to that point, so that its
\* y-coordinate is the drag height.
C20_DragFollowsPlanePoint ==
    [][ (DragMove /\ dragEvent'.plane # {}) =>
          \A h \in draggedObject :
             /\ position'[handle[h].object] = The(dragEvent'.plane)
             /\ position'[handle[h].object].y = DragPlaneY ]_vars

(***************************************************************************)
(* Properties of the InteractiveObject wrapper (checked under SpecWrapper) *)
(***************************************************************************)
\* C16: a handle is in the registry exactly while its wrapper is mounted:
\* once the wrapper with id i is mounted a handle with id i is registered,
\* and once it is unmounted no handle is registered.
C16_RegisteredWhileMounted ==
    /\ wrapper.mounted => wrapper.props.id \in DOMAIN registeredObjects
    /\ ~wrapper.mounted => DOMAIN registeredObjects = {}

(***************************************************************************)
(* Properties of the liquid system (checked under SpecLiquid)              *)
(***************************************************************************)
AllParticles == ParticlesOf(streams) \o splashParticles

\* C12: no particle of any population, a stream's or the splash set, is
\* older than its lifetime: a simulation step removes every particle whose
\* age, the step's delta added, exceeds its lifetime.
C12_NoParticleOutlivesLifetime ==
    \A i \in 1..Len(AllParticles) :
        AllParticles[i].age <= AllParticles[i].lifetime

\* after a step of two ticks a stream particle is exactly as old as its
\* lifetime allows, and the splash particles that were too old are gone
C12_Witness ==
    /\ liquidEvent.op = "frame"
    /\ liquidEvent.delta = 2
    /\ \E i \in 1..Len(streams) :
          \E k \in 1..Len(streams[i].particles) :
             streams[i].particles[k].age = streams[i].particles[k].lifetime
    /\ splashParticles = <<>>

\* C13: every splash particle that survives a simulation step is at y >= 0
\* after it: it either moved by its new velocity, or it was put on the
\* ground (y = 0) with no vertical velocity and at most half of its
\* horizontal velocity.
C13_SplashStaysAboveGround ==
    [][ liquidEvent'.op = "frame" =>
          LET d == liquidEvent'.delta
              survivors == SelectSeq(splashParticles,
                                     LAMBDA p : p.age + d <= p.lifetime)
          IN  /\ Len(splashParticles') >= Len(survivors)
              /\ \A j \in 1..Len(survivors) :
                    LET p == survivors[j]
                        q == splashParticles'[j]
                    IN  /\ q.y >= 0
                        /\ \/ q.y = p.y + q.vy * d
                           \/ /\ q.y = 0
                              /\ q.vy = 0
                              /\ 2 * Abs(q.vx) <= Abs(p.vx) ]_vars

\* after a step one splash particle, created below the ground, lies on the
\* ground without vertical velocity and another one is still in the air
C13_Witness ==
    /\ liquidEvent.op = "frame"
    /\ \E i, j \in 1..Len(splashParticles) :
          /\ splashParticles[i].age = 1
          /\ splashParticles[i].y = 0
          /\ splashParticles[i].vy = 0
          /\ splashParticles[j].age = 1
          /\ splashParticles[j].y > 0
          /\ splashParticles[j].vy < 0

\* C14: the particles alive, those of all streams and the splash particles
\* together, never number more than maxParticles.
C14_ParticlesBoundedByMax ==
    LiveParticles(streams, splashParticles) <= liquidProps.maxParticles

(***************************************************************************)
(* Properties of the Experiment page (checked under SpecPage)              *)
(***************************************************************************)
\* C15: when the upsert of markAsComplete fails, the store returning an
\* error for it, the call shows the notification "Failed to update progress"
\* and does not show the success notification.
C15_FailedUpsertIsReported ==
    \A i \in 1..Len(tasks) :
        ( /\ tasks[i].fn = "markAsComplete"
          /\ tasks[i].pc = "done"
          /\ tasks[i].outcome = "error" )
        => /\ [task |-> i, description |-> ProgressFailed] \in toasts
           /\ [task |-> i, description |-> Completed] \notin toasts

\* C21: a frame pushes new particles to a stream only if the stream is
\* active and holds fewer than maxParticles / 10 particles before the push,
\* and then floor(flowRate * delta * 5) of them; no step makes an inactive
\* stream active again or adds a particle to it.
C21_SpawnOnlyActiveUnderBudget ==
    [][ /\ liquidEvent'.op = "frame" =>
           /\ Len(liquidEvent'.spawned) = Len(streams)
           /\ Len(streams') = Len(streams)
           /\ \A i \in 1..Len(streams) :
                 LET stream == streams[i]
                     d      == liquidEvent'.delta
                 IN  /\ liquidEvent'.spawned[i] =
                           IF /\ stream.isActive
                              /\ Len(stream.particles) * 10 < liquidProps.maxParticles
                           THEN (stream.flowRate * d * 5) \div 20
                           ELSE 0
                     \* the particles of the stream that were pushed by this
                     \* frame are of age delta
                     /\ Cardinality({k \in 1..Len(streams'[i].particles) :
                                        streams'[i].particles[k].age = d})
                           <= liquidEvent'.spawned[i]
        /\ \A i \in 1..Len(streams), j \in 1..Len(streams') :
              ( streams[i].id = streams'[j].id /\ ~streams[i].isActive )
              => /\ ~streams'[j].isActive
                 /\ Len(streams'[j].particles) <= Len(streams[i].particles)
      ]_vars

\* a frame has pushed particles to an active stream that already held some
C21_Witness ==
    /\ liquidEvent.op = "frame"
    /\ \E i \in 1..Len(liquidEvent.spawned) : liquidEvent.spawned[i] > 0
    /\ \E i \in 1..Len(streams) : streams[i].isActive /\ Len(streams[i].particles) > 0

IdleStream(stream) == ~stream.isActive /\ Len(stream.particles) = 0

StreamIds(strs) == [i \in 1..Len(strs) |-> strs[i].id]

\* C22 (as stated): after a frame the live stream set holds no stream that is
\* inactive and has no particles.
C22_Original_FrameRemovesIdleStreams ==
    [][ liquidEvent'.op = "frame" =>
          \A i \in 1..Len(streams') : ~IdleStream(streams'[i]) ]_vars

\* C22 (amended): a frame removes no stream and returns a stream that is
\* inactive and empty unchanged; a stream leaves the live set only by the
\* delayed removal of stopPour or by clearAllStreams.
C22_Amended_FrameKeepsIdleStreams ==
    [][ /\ liquidEvent'.op = "frame" =>
           /\ StreamIds(streams') = StreamIds(streams)
           /\ \A i \in 1..Len(streams) :
                 IdleStream(streams[i]) => streams'[i] = streams[i]
        /\ ( \E i \in 1..Len(streams) :
                \A j \in 1..Len(streams') : streams'[j].id # streams[i].id )
           => liquidEvent'.op \in {"timer", "clearAllStreams"}
      ]_vars

\* a frame has run over an inactive, empty stream
C22_Witness ==
    /\ liquidEvent.op = "frame"
    /\ \E i \in 1..Len(streams) : IdleStream(streams[i])

\* C23: whenever the delayed removal scheduled by stopPour takes a stream
\* out of the live set, that stream (inactive, since it was stopped) holds no
\* particles: no live particle disappears because of the removal.
C23_TimerRemovesNoLiveParticle ==
    [][ liquidEvent'.op = "timer" =>
          \A i \in 1..Len(streams) :
              ( /\ \A j \in 1..Len(streams') : streams'[j].id # streams[i].id
                /\ ~streams[i].isActive )
              => Len(streams[i].particles) = 0 ]_vars

\* the streams of the live set that a step takes out of it
Removed == { i \in 1..Len(streams) :
               \A j \in 1..Len(streams') : streams'[j].id # streams[i].id }

\* the ids of the live set are distinct and were handed out by the counter,
\* which never goes back; a stream that enters the live set has the next id
IdsNeverReused ==
    /\ streamIdCounter' >= streamIdCounter
    /\ \A j \in 1..Len(streams') :
          \/ \E i \in 1..Len(streams) : streams[i].id = streams'[j].id
          \/ streams'[j].id = streamIdCounter /\ streamIdCounter' > streamIdCounter
    /\ \A j, k \in 1..Len(streams') : streams'[j].id = streams'[k].id => j = k

C24_NoCompletionAfterTeardown ==
    /\ onCompleteCalls \cap tornDown = {}
    /\ \A t \in effectTimers : t.activation \notin tornDown

\* an activation was torn down before its timer fired, a later activation
\* completed
C24_Witness ==
    /\ tornDown # {}
    /\ onCompleteCalls # {}

(***************************************************************************)
(* Properties of the vessels: volume, pours, cap (checked under SpecVessel)*)
(***************************************************************************)
\* C25: a vessel's current volume is changed only by pour-end events: no
\* other event (click, hover, pointer-down/up, pour-start, cap toggle, a new
\* volume prop, a render) changes it, and no event increases it.
C25_VolumeChangedOnlyByPourEnd ==
    [][ /\ vessel'.currentVolume <= vessel.currentVolume
        /\ vessel'.currentVolume # vessel.currentVolume
              => vesselEvent'.op = "pourEnd" ]_vars

\* the parent has passed a volume prop above the current volume
C25_Witness ==
    /\ vesselEvent.op = "volumeProp"
    /\ vessel.volume > vessel.currentVolume

PourCanStart(v) ==
    /\ v.currentVolume > 0
    /\ ~v.isPouring
    /\ (v.kind = "Bottle" => v.isCapOpen)

\* C28: a pour starts only by a double-click on a vessel with volume > 0, no
\* pour in progress and, for the Bottle, the cap open; a double-click on
\* another vessel changes nothing; the volume never falls below the volume
\* at the start of the last pour less one pour-rate amount (floored at 0),
\* however many frame callbacks end the pour before the render.
C28_PourLowersVolumeOnce ==
    [][ /\ ( vessel'.isPouring /\ ~vessel.isPouring )
              => vesselEvent'.op = "doubleClick" /\ PourCanStart(vessel)
        /\ ( vesselEvent'.op = "doubleClick" /\ ~PourCanStart(vessel) )
              => vessel' = vessel
        /\ vessel'.currentVolume >=
              Max(0, pour'.startVolume - PourRate(vessel'.kind))
        /\ vesselEvent'.op = "pourEnd" => ~vessel'.isPouring
      ]_vars

\* two frame callbacks have ended the same pour before the render, and the
\* volume is one pour-rate amount below the volume at the start of the pour
C28_Witness ==
    /\ vesselEvent.op = "pourEnd"
    /\ pour.ends = 2
    /\ rendered.isPouring
    /\ vessel.currentVolume > 0
    /\ vessel.currentVolume = pour.startVolume - PourRate(vessel.kind)

\* C29: one click gesture on the bottle cap, pointer-down followed by click,
\* leaves the cap in the other state than it was in before the gesture.
C29_CapGestureTogglesOnce ==
    [][ vesselEvent'.op = "capClick" =>
          \A was \in gesture : vessel'.isCapOpen = ~was ]_vars

(***************************************************************************)
(* Drag and unmount (checked under SpecDrag)                               *)
(***************************************************************************)
\* C26: once the id of the dragged handle is unregistered (its wrapper
\* unmounted) the registry does not keep the handle as the dragged handle,
\* and no later pointer-move changes the position of its object.
C26_DragStopsAtUnmount ==
    [][ /\ dragEvent'.op = "unregister" =>
              \A h \in draggedObject :
                  HandleId(h) = dragEvent'.id => h \notin draggedObject'
        /\ dragEvent'.op = "mouseMove" =>
              \A h \in draggedObject :
                  HandleId(h) \notin DOMAIN registeredObjects
                  => position'[HandleObject(h)] = position[HandleObject(h)]
      ]_vars

\* C30: when the experiment id of the page changed while a fetch was
\* pending, then once every fetch has completed (successfully) the page holds
\* the experiment of the id requested last and is not loading.
C30_LatestFetchWins ==
    ( /\ page.mounted
      /\ \E i, j \in 1..Len(tasks) :
            /\ tasks[i].fn = "fetchExperiment" /\ tasks[j].fn = "fetchExperiment"
            /\ tasks[i].id # tasks[j].id
      /\ \A i \in 1..Len(tasks) :
            tasks[i].fn = "fetchExperiment"
            => tasks[i].pc = "done" /\ tasks[i].outcome = "ok" )
    => /\ page.experiment = page.experimentId
       /\ ~page.loading

=============================================================================
